---------------------------- MODULE Spec2Model ----------------------------
(***************************************************************************)
(* ServeML deployment pipeline: the FastAPI handlers of backend/app.py     *)
(* (deploy, list, get, delete), the background task                        *)
(* deploy_model_background, and the validators and builder they call.      *)
(*                                                                         *)
(* All handlers and the background task are `async def` functions run on   *)
(* one asyncio event loop, so code between two awaits runs without         *)
(* interleaving.  The background task has a single await that matters      *)
(* (asyncio.sleep(10), app.py:406); its synchronous first segment is shown *)
(* here as three consecutive steps (BgStart, BgValidate, BgBuild) which    *)
(* hold the event loop (variable running), so no request handler can run   *)
(* between them.                                                           *)
(***************************************************************************)
EXTENDS Integers, Sequences, FiniteSets, TLC

(***************************************************************************)
(* Bounds of the model.                                                    *)
(***************************************************************************)
MaxIds == 2
MaxTime == 31

(***************************************************************************)
(* Program constants.                                                      *)
(***************************************************************************)
MaxSizeMb == 500
BytesPerMb == 1024 * 1024
SimulatedDeploySeconds == 30
SleepSeconds == 10
SecondsPerDay == 86400

None == "None"

supported_extensions == <<".pkl", ".pt", ".pth", ".h5", ".keras">>

SeqToSet(s) == {s[i] : i \in 1..Len(s)}

(***************************************************************************)
(* Text is modelled as sequences of tokens.  str.lower() maps each token   *)
(* through a table; tokens that are already lower-case map to themselves.  *)
(***************************************************************************)
LowerTok(t) ==
  CASE t = ".PKL" -> ".pkl"
    [] t = ".PT" -> ".pt"
    [] t = ".H5" -> ".h5"
    [] t = "TensorFlow" -> "tensorflow"
    [] t = "TensorFlow-GPU" -> "tensorflow-gpu"
    [] OTHER -> t

Lower(s) == [i \in 1..Len(s) |-> LowerTok(s[i])]

\* Tokens in which the operator text op occurs as a substring.
TokContains(tok, op) ==
  \/ tok = op
  \/ op = ">" /\ tok = ">="
  \/ op = "<" /\ tok = "<="

\* Python's `op in line`.
Contains(line, op) == \E i \in 1..Len(line) : TokContains(line[i], op)

IsSpace(t) == t = " "

RECURSIVE lstrip(_)
lstrip(line) ==
  IF line = <<>> THEN <<>>
  ELSE IF IsSpace(Head(line)) THEN lstrip(Tail(line)) ELSE line

RECURSIVE rstrip(_)
rstrip(line) ==
  IF line = <<>> THEN <<>>
  ELSE IF IsSpace(line[Len(line)]) THEN rstrip(SubSeq(line, 1, Len(line) - 1))
       ELSE line

\* str.strip()
strip(line) == rstrip(lstrip(line))

\* str.split(sep): the list of pieces between occurrences of the token sep.
RECURSIVE split_acc(_, _, _)
split_acc(line, sep, cur) ==
  IF line = <<>> THEN <<cur>>
  ELSE IF Head(line) = sep THEN <<cur>> \o split_acc(Tail(line), sep, <<>>)
       ELSE split_acc(Tail(line), sep, Append(cur, Head(line)))

split(line, sep) == split_acc(line, sep, <<>>)

\* str.split()[0] on a stripped, non-empty line: the text up to the first
\* whitespace.
RECURSIVE first_word(_)
first_word(line) ==
  IF line = <<>> \/ IsSpace(Head(line)) THEN <<>>
  ELSE <<Head(line)>> \o first_word(Tail(line))


(***************************************************************************)
(* ModelValidator.validate_requirements (model_validator.py:225-262).      *)
(* A requirements file is [exists, lines]; a line is a token sequence.     *)
(* The loop state is [packages, warnings, raised]: raised is set when the  *)
(* two-target unpacking of line.split('==') raises ValueError, which       *)
(* leaves the loop for the outer except clause.                            *)
(***************************************************************************)
ParseLine(acc, raw) ==
  LET line == strip(raw) IN
  IF acc.raised THEN acc
  ELSE IF line = <<>> \/ Head(line) = "#" THEN acc
  ELSE IF Contains(line, "==")
    THEN LET parts == split(line, "==") IN
         IF Len(parts) # 2 THEN [acc EXCEPT !.raised = TRUE]
         ELSE [acc EXCEPT !.packages =
                 Append(@, [name |-> parts[1], version |-> parts[2]])]
  ELSE IF \/ Contains(line, ">=") \/ Contains(line, "<=")
          \/ Contains(line, ">") \/ Contains(line, "<")
    THEN [acc EXCEPT
            !.warnings = Append(@, <<"Package with version range", line>>),
            !.packages = Append(@, [name |-> first_word(line),
                                    version |-> <<"range">>])]
  ELSE [acc EXCEPT
          !.warnings = Append(@, <<"Package without version", line>>),
          !.packages = Append(@, [name |-> line, version |-> <<"latest">>])]

RECURSIVE ParseLines(_, _)
ParseLines(acc, lines) ==
  IF lines = <<>> THEN acc
  ELSE ParseLines(ParseLine(acc, Head(lines)), Tail(lines))

ConflictErrors(packages) ==
  LET package_names == {Lower(packages[i].name) : i \in 1..Len(packages)} IN
  IF <<"tensorflow">> \in package_names /\ <<"tensorflow-gpu">> \in package_names
  THEN <<"Both tensorflow and tensorflow-gpu specified">>
  ELSE <<>>

validate_requirements(file) ==
  LET empty == [packages |-> <<>>, warnings |-> <<>>, raised |-> FALSE] IN
  IF ~file.exists
  THEN [valid |-> FALSE, packages |-> <<>>, warnings |-> <<>>,
        errors |-> <<"Failed to parse requirements">>]
  ELSE LET acc == ParseLines(empty, file.lines) IN
       IF acc.raised
       THEN [valid |-> FALSE, packages |-> acc.packages,
             warnings |-> acc.warnings,
             errors |-> <<"Failed to parse requirements">>]
       ELSE LET errs == ConflictErrors(acc.packages) IN
            [valid |-> Len(errs) = 0, packages |-> acc.packages,
             warnings |-> acc.warnings, errors |-> errs]

(***************************************************************************)
(* DockerBuilder.validate_requirements (docker_builder.py:142-161): only   *)
(* logs about unpinned lines; it fails only when the file cannot be read.  *)
(***************************************************************************)
builder_validate_requirements(file) ==
  IF file.exists THEN [valid |-> TRUE, result |-> "Requirements validated"]
  ELSE [valid |-> FALSE, result |-> "Invalid requirements file"]

(***************************************************************************)
(* ModelValidator.validate_model (model_validator.py:19-204).              *)
(* A model file is                                                         *)
(*   [exists, size, load, has_predict, declared, accepts, is_dict,         *)
(*    has_proba, has_score]                                                *)
(* size in bytes; load is the outcome of the framework loader ("ok",       *)
(* "error", "import_error"); declared is n_features_in_ / n_features_ (0   *)
(* when the object has neither); accepts is the set of probe inputs on     *)
(* which the model's prediction call does not raise.                       *)
(* An absent (None) shape is the empty tuple <<>>; an absent framework is  *)
(* None.  The result carries load_attempted, which records whether the     *)
(* deserializer was called.                                                *)
(***************************************************************************)
SklearnProbes == <<4, 10, 20, 100>>
\* (3,224,224), (1,28,28), (10,), (100,), (784,), each written as one number.
TorchProbes == <<3224224, 12828, 10, 100, 784>>

\* First element of probes that is in accepts, as a one-element tuple;
\* <<>> when there is none.
RECURSIVE FirstAccepted(_, _)
FirstAccepted(probes, accepts) ==
  IF probes = <<>> THEN <<>>
  ELSE IF Head(probes) \in accepts THEN <<Head(probes)>>
       ELSE FirstAccepted(Tail(probes), accepts)

EmptyMetadata ==
  [framework |-> None, input_shape |-> <<>>, output_known |-> FALSE,
   suffix |-> "", size |-> 0, errors |-> <<>>]

\* What a call produces: the returned pair (is_valid, metadata), or, when
\* raised is not "", an exception of that class leaving the function.
Result(valid, metadata, attempted) ==
  [is_valid |-> valid, metadata |-> metadata, load_attempted |-> attempted,
   raised |-> ""]

Raise(kind, metadata, attempted) ==
  [is_valid |-> FALSE, metadata |-> metadata, load_attempted |-> attempted,
   raised |-> kind]

\* ImportError is a subclass of Exception.
Caught(handler) ==
  IF handler = "Exception" THEN {"Exception", "ImportError"} ELSE {handler}

\* Variant: the try block has no except clause.
except_absent(r, handler, message) == r

\* except <handler> as e:
\*     metadata['errors'].append(message); return False, metadata
except_clause(r, handler, message) ==
  IF r.raised \in Caught(handler)
  THEN Result(FALSE, [r.metadata EXCEPT !.errors = Append(@, message)],
              r.load_attempted)
  ELSE r

\* The try block of _validate_sklearn_model, lines 62-108.
sklearn_try(file, metadata) ==
  IF file.load # "ok" THEN Raise("Exception", metadata, TRUE)
  ELSE LET m1 == [metadata EXCEPT !.framework = "sklearn"] IN
       IF ~file.has_predict
       THEN Result(FALSE,
              [m1 EXCEPT !.errors = Append(@, "Model missing 'predict' method")],
              TRUE)
       ELSE LET declared == IF file.declared # 0 THEN <<file.declared>> ELSE <<>>
                shape == IF declared # <<>> THEN declared
                         ELSE FirstAccepted(SklearnProbes, file.accepts)
                \* model.predict(X_test) at line 96 raises when the model
                \* rejects the width; the inner except only logs.
                predicted == shape # <<>> /\ shape[1] \in file.accepts
                suffix == IF ~predicted THEN ""
                          ELSE IF file.has_proba THEN " (Classifier)"
                          ELSE IF file.has_score THEN " (Regressor)" ELSE ""
            IN Result(TRUE,
                 [m1 EXCEPT !.input_shape = shape, !.output_known = predicted,
                            !.suffix = suffix],
                 TRUE)

validate_sklearn_model(file, metadata) ==
  except_clause(sklearn_try(file, metadata), "Exception",
                "Failed to load sklearn model")

\* The try block of _validate_pytorch_model, lines 117-165.
pytorch_try(file, metadata) ==
  IF file.load = "import_error" THEN Raise("ImportError", metadata, FALSE)
  ELSE IF file.load # "ok" THEN Raise("Exception", metadata, TRUE)
  ELSE LET m1 == [metadata EXCEPT !.framework = "pytorch"] IN
       IF file.is_dict
       THEN Result(FALSE, [m1 EXCEPT !.errors = Append(@, "Model is a state dict")],
                   TRUE)
       ELSE LET shape == FirstAccepted(TorchProbes, file.accepts) IN
            IF shape = <<>>
            THEN Result(FALSE,
                   [m1 EXCEPT !.errors =
                      Append(@, "Could not determine model input shape")],
                   TRUE)
            ELSE Result(TRUE,
                   [m1 EXCEPT !.input_shape = shape, !.output_known = TRUE],
                   TRUE)

validate_pytorch_model(file, metadata) ==
  except_clause(except_clause(pytorch_try(file, metadata), "ImportError",
                              "PyTorch not installed"),
                "Exception", "Failed to load PyTorch model")

\* The try block of _validate_tensorflow_model, lines 177-194.
tensorflow_try(file, metadata) ==
  IF file.load = "import_error" THEN Raise("ImportError", metadata, FALSE)
  ELSE IF file.load # "ok" THEN Raise("Exception", metadata, TRUE)
  ELSE Result(TRUE,
         [metadata EXCEPT !.framework = "tensorflow",
            !.input_shape = IF file.declared # 0 THEN <<file.declared>> ELSE <<>>,
            !.output_known = TRUE],
         TRUE)

validate_tensorflow_model(file, metadata) ==
  except_clause(except_clause(tensorflow_try(file, metadata), "ImportError",
                              "TensorFlow not installed"),
                "Exception", "Failed to load TensorFlow model")

\* Variant: the size in MiB taken with integer division.
TooLarge_floor(size) == (size \div BytesPerMb) > MaxSizeMb

\* size_mb = file_size / (1024 * 1024) is exact in floating point for the
\* sizes a file can have, so size_mb > 500 is file_size > 500 * 1024 * 1024.
TooLarge(size) == size > MaxSizeMb * BytesPerMb

\* The try block of validate_model, lines 35-53.  Path(model_path).stat()
\* raises FileNotFoundError for a missing file.
validate_model_try(ext, file) ==
  IF ~file.exists THEN Raise("Exception", EmptyMetadata, FALSE)
  ELSE LET metadata == [EmptyMetadata EXCEPT !.size = file.size] IN
       IF TooLarge(file.size)
       THEN Result(FALSE, [metadata EXCEPT !.errors = <<"Model too large">>],
                   FALSE)
       ELSE IF ext = ".pkl" THEN validate_sklearn_model(file, metadata)
       ELSE IF ext \in {".pt", ".pth"} THEN validate_pytorch_model(file, metadata)
       ELSE IF ext \in {".h5", ".keras"}
         THEN validate_tensorflow_model(file, metadata)
       ELSE Result(FALSE,
              [metadata EXCEPT !.errors = <<"Unsupported model format">>],
              FALSE)

validate_model(ext, file) ==
  except_clause(validate_model_try(ext, file), "Exception", "Validation error")

(***************************************************************************)
(* DockerBuilder.build_image (docker_builder.py:21-85).  env is what the   *)
(* build host does: templates_ok (wrapper.py and Dockerfile can be copied) *)
(* and returncode of `docker build`.  Any copy that fails raises inside    *)
(* the try block and is turned into a failure result.                      *)
(***************************************************************************)
image_name(deployment_id) == <<"serveml-", deployment_id, ":latest">>

\* The try block, lines 35-80: raised is set when one of the four
\* shutil.copy2 calls raises.
build_image_try(model_exists, requirements_exists, deployment_id, env) ==
  IF ~model_exists \/ ~requirements_exists \/ ~env.templates_ok
  THEN [success |-> FALSE, result |-> <<>>, raised |-> TRUE]
  ELSE IF env.returncode # 0
  THEN [success |-> FALSE, result |-> <<"Docker build failed">>, raised |-> FALSE]
  ELSE [success |-> TRUE, result |-> image_name(deployment_id), raised |-> FALSE]

\* Variant: the return code of `docker build` is not looked at.
build_image_unchecked(model_exists, requirements_exists, deployment_id, env) ==
  [success |-> TRUE, result |-> image_name(deployment_id), raised |-> FALSE]

\* Lines 82-85: except Exception returns (False, error_msg).
build_image(model_exists, requirements_exists, deployment_id, env) ==
  LET r == build_image_try(model_exists, requirements_exists, deployment_id, env) IN
  IF r.raised
  THEN [success |-> FALSE, result |-> <<"Failed to build Docker image">>,
        raised |-> FALSE]
  ELSE r

BuildEnvs ==
  { [templates_ok |-> TRUE, returncode |-> 0],
    [templates_ok |-> TRUE, returncode |-> 1],
    [templates_ok |-> FALSE, returncode |-> 0] }

(***************************************************************************)
(* DockerBuilder.estimate_image_size (docker_builder.py:163-191).  The     *)
(* text of the file is its lines joined by newline tokens.  A known name   *)
(* occurs in the text when it is a substring of one of its tokens;         *)
(* KnownWithin lists, for the tokens used here, the known names that are   *)
(* substrings of the token.                                                *)
(***************************************************************************)
base_size == 250

package_sizes ==
  << [package |-> "tensorflow", size |-> 500],
     [package |-> "torch", size |-> 750],
     [package |-> "pytorch", size |-> 750],
     [package |-> "scikit-learn", size |-> 100],
     [package |-> "sklearn", size |-> 100],
     [package |-> "pandas", size |-> 50],
     [package |-> "numpy", size |-> 20],
     [package |-> "scipy", size |-> 40] >>

KnownWithin(tok) ==
  CASE tok = "tensorflow" -> {"tensorflow"}
    [] tok = "tensorflow-gpu" -> {"tensorflow"}
    [] tok = "torch" -> {"torch"}
    [] tok = "pytorch" -> {"torch", "pytorch"}
    [] tok = "torchvision" -> {"torch"}
    [] tok = "scikit-learn" -> {"scikit-learn"}
    [] tok = "sklearn" -> {"sklearn"}
    [] tok = "pandas" -> {"pandas"}
    [] tok = "numpy" -> {"numpy"}
    [] tok = "scipy" -> {"scipy"}
    [] OTHER -> {}

\* f.read(): the lines, each followed by a newline.
RECURSIVE read(_)
read(lines) ==
  IF lines = <<>> THEN <<>>
  ELSE Head(lines) \o <<"\n">> \o read(Tail(lines))

\* Python's `package in requirements` for a known package name.
occurs_in(package, requirements) ==
  \E i \in 1..Len(requirements) : package \in KnownWithin(requirements[i])

\* Number of tokens of the text in which the name occurs.
RECURSIVE occurrences(_, _)
occurrences(package, requirements) ==
  IF requirements = <<>> THEN 0
  ELSE (IF package \in KnownWithin(Head(requirements)) THEN 1 ELSE 0)
       + occurrences(package, Tail(requirements))

\* Variant: the size is added once for every occurrence of the name.
size_added_per_occurrence(entry, requirements) ==
  entry.size * occurrences(entry.package, requirements)

\* Lines 185-186: if package in requirements: total_size += size
size_added(entry, requirements) ==
  IF occurs_in(entry.package, requirements) THEN entry.size ELSE 0

RECURSIVE add_sizes(_, _, _)
add_sizes(total_size, entries, requirements) ==
  IF entries = <<>> THEN total_size
  ELSE add_sizes(total_size + size_added(Head(entries), requirements),
                 Tail(entries), requirements)

estimate_image_size(file) ==
  IF ~file.exists THEN base_size
  ELSE add_sizes(base_size, package_sizes, Lower(read(file.lines)))

(***************************************************************************)
(* Inputs of a submission.                                                 *)
(***************************************************************************)
\* Upload filenames as <<stem, extension>>, the split os.path.splitext makes.
ModelFilenames ==
  { <<"model", ".pkl">>, <<"model", ".PKL">>, <<"model", ".txt">>,
    <<"malicious", ".exe">>, <<"model", "">> }

RequirementsFilenames == { <<"requirements", ".txt">>, <<"requirements", ".yaml">> }

Estimator ==
  [exists |-> TRUE, size |-> 2048, load |-> "ok", has_predict |-> TRUE,
   declared |-> 4, accepts |-> {4}, is_dict |-> FALSE,
   has_proba |-> TRUE, has_score |-> TRUE]

\* A loadable estimator, the same one byte over the size limit, and a file
\* that does not unpickle.
ModelFiles ==
  { Estimator,
    [Estimator EXCEPT !.size = MaxSizeMb * BytesPerMb + 1],
    [Estimator EXCEPT !.load = "error"] }

ReqFile(lines) == [exists |-> TRUE, lines |-> lines]

PinnedManifest == ReqFile(<< <<"numpy", "==", "1.24.3">> >>)

ConflictManifest ==
  ReqFile(<< <<"tensorflow", "==", "2.13.0">>,
             <<"#", " ", "gpu">>,
             <<"tensorflow-gpu", "==", "2.13.0">> >>)

RequirementsFiles == { PinnedManifest, ConflictManifest }

(***************************************************************************)
(* State.                                                                  *)
(***************************************************************************)
VARIABLES
  deployments,  \* app.py:46, the in-memory store: id -> record
  uploads,      \* directories under UPLOAD_DIR: id -> [model_ext, requirements]
  tasks,        \* unfinished background tasks: id -> [pc, wake, framework]
  running,      \* id of the task holding the event loop, 0 when it is free
  now,          \* wall clock, seconds
  nextId,       \* number of deployment ids generated so far
  subs,         \* id -> what the validators returned for the submission
  built,        \* ids for which build_image has been called
  pipelines,    \* id -> number of background tasks added for it and not ended
  call,         \* a direct call of a service function: its arguments
  ret,          \* what that call returned
  MODEL_CACHE,  \* wrapper.py:17, the adapter's cache: artifact path -> model
  loads,        \* number of models the adapter has deserialized so far
  adapter_response, \* what the adapter's handler returned last
  records,      \* s3_trigger.py:40, the event records still to be processed
  dispatched,   \* workflow dispatches sent to GitHub, in order
  status_updates, \* calls of update_deployment_status, in order
  trigger_response \* what the trigger handler returned

\* The state of the inference adapter (templates/wrapper.py) and of the S3
\* trigger function (lambda_functions/s3_trigger.py).  Both run in their
\* own processes and share nothing with the API service.
AdapterVars == <<MODEL_CACHE, loads, adapter_response>>
TriggerVars == <<records, dispatched, status_updates, trigger_response>>

vars ==
  <<deployments, uploads, tasks, running, now, nextId, subs, built, pipelines,
    call, ret, AdapterVars, TriggerVars>>

\* No direct call is made while the application serves requests.
NoCall == [fn |-> "none"]
NoReturn == [pending |-> TRUE]

Ids == 1..MaxIds

\* None for the optional text fields of a record (texts are tuples).
Unset == <<>>

endpoint_for(deployment_id) ==
  <<"https://api.serveml.com/models/", deployment_id, "/predict">>

\* dict helpers
Put(f, k, v) == [x \in DOMAIN f \cup {k} |-> IF x = k THEN v ELSE f[x]]
\* Variant: the whole dict is emptied.
Del_clear(f, k) == <<>>

Del(f, k) == [x \in DOMAIN f \ {k} |-> f[x]]

\* Variant: the id is taken from a fixed name instead of being drawn.
uuid4_fixed(generated) == 1

\* app.py:223: uuid.uuid4() gives an id that was not given before; the ids
\* are numbered in the order they are drawn.
uuid4(generated) == generated + 1

\* Bookkeeping of the background tasks per id: background_tasks.add_task
\* (app.py:274) and the end of deploy_model_background.
InFlight(count, d) == IF d \in DOMAIN count THEN count[d] ELSE 0

TaskAdded(count, d) == Put(count, d, InFlight(count, d) + 1)

TaskEnded(count, d) ==
  IF InFlight(count, d) <= 1 THEN Del(count, d)
  ELSE [count EXCEPT ![d] = @ - 1]

\* The writes to a record after its creation: app.py:378, 402-403,
\* 320-321 and 410-411, 418-419.
mark_building(rec) == [rec EXCEPT !.status = "building"]

mark_deploying(rec, image) ==
  [rec EXCEPT !.status = "deploying", !.docker_image = image]

mark_active(rec, deployment_id) ==
  [rec EXCEPT !.status = "active", !.endpoint_url = endpoint_for(deployment_id)]

mark_failed(rec, message) ==
  [rec EXCEPT !.status = "failed", !.error_message = message]

\* wrapper.py:17: the cache of a fresh execution environment is empty.
NoResponse == [request |-> 0, fn |-> "none", statusCode |-> 0]

AdapterInit ==
  /\ MODEL_CACHE = <<>>
  /\ loads = 0
  /\ adapter_response = NoResponse

\* The trigger function before an event is delivered.
TriggerIdle ==
  /\ records = <<>>
  /\ dispatched = <<>>
  /\ status_updates = <<>>
  /\ trigger_response = NoResponse

Init ==
  /\ deployments = <<>>
  /\ uploads = <<>>
  /\ tasks = <<>>
  /\ running = 0
  /\ now = 0
  /\ nextId = 0
  /\ subs = <<>>
  /\ built = {}
  /\ pipelines = <<>>
  /\ call = NoCall
  /\ ret = NoReturn
  /\ AdapterInit
  /\ TriggerIdle

\* What a DeploymentResponse shows of a record (app.py:53-60).
DeploymentResponse(d, rec) ==
  [id |-> d, status |-> rec.status, created_at |-> rec.created_at,
   endpoint_url |-> rec.endpoint_url, error_message |-> rec.error_message]

Response(code, detail, body) == [code |-> code, detail |-> detail, body |-> body]

(***************************************************************************)
(* POST /api/v1/deploy (app.py:195-290).  The awaits of the handler (the   *)
(* reads of the uploaded files) come before anything is stored, so the     *)
(* handler is one step.                                                    *)
(***************************************************************************)
file_ext(filename) == LowerTok(filename[2])

\* Variant: a filename without extension is let through.
extension_supported_or_empty(ext) ==
  ext = "" \/ ext \in SeqToSet(supported_extensions)

\* app.py:213
extension_supported(ext) == ext \in SeqToSet(supported_extensions)

\* app.py:219
requirements_name_ok(filename) == filename[2] = ".txt"

\* Variant: the verdict of the model validator is not looked at.
deploy_outcome_unvalidated(model_filename, requirements_filename, model_file, requirements_file) ==
  IF ~extension_supported(file_ext(model_filename)) THEN "bad_extension"
  ELSE IF ~requirements_name_ok(requirements_filename) THEN "bad_requirements_name"
  ELSE "accepted"

\* Which way the handler leaves: the two checks before the try block, then
\* inside it the writes and the model validation (app.py:248).  The result
\* of validate_requirements is only logged (app.py:255-257).
deploy_outcome(model_filename, requirements_filename, model_file, requirements_file) ==
  IF ~extension_supported(file_ext(model_filename)) THEN "bad_extension"
  ELSE IF ~requirements_name_ok(requirements_filename) THEN "bad_requirements_name"
  ELSE IF ~validate_model(file_ext(model_filename), model_file).is_valid
    THEN "invalid_model"
  ELSE "accepted"

\* Variant: the address is filled in when the record is created.
new_deployment_info_with_url(created_at, metadata) ==
  [status |-> "validating", created_at |-> created_at,
   endpoint_url |-> <<"https://api.serveml.com/models/">>,
   error_message |-> Unset, docker_image |-> Unset,
   framework |-> metadata.framework, input_shape |-> metadata.input_shape]

\* Variant: the record is created in the status the build leaves it in.
new_deployment_info_deploying(created_at, metadata) ==
  [status |-> "deploying", created_at |-> created_at,
   endpoint_url |-> Unset, error_message |-> Unset, docker_image |-> Unset,
   framework |-> metadata.framework, input_shape |-> metadata.input_shape]

\* app.py:260-271
new_deployment_info(created_at, metadata) ==
  [status |-> "validating", created_at |-> created_at,
   endpoint_url |-> Unset, error_message |-> Unset, docker_image |-> Unset,
   framework |-> metadata.framework, input_shape |-> metadata.input_shape]

\* The response of the handler.  An HTTPException raised inside the try
\* block (app.py:249) is caught by `except Exception` (app.py:284) and
\* answered as 500.
deploy_response(model_filename, requirements_filename, model_file, requirements_file) ==
  LET outcome == deploy_outcome(model_filename, requirements_filename,
                                model_file, requirements_file)
  IN CASE outcome = "bad_extension" ->
            Response(400, "Model file must be one of", <<>>)
       [] outcome = "bad_requirements_name" ->
            Response(400, "Requirements file must be a .txt file", <<>>)
       [] outcome = "invalid_model" ->
            Response(500, "Deployment failed", <<>>)
       [] OTHER ->
            Response(200, "",
              <<DeploymentResponse(uuid4(nextId),
                  new_deployment_info(now,
                    validate_model(file_ext(model_filename), model_file).metadata))>>)

deploy_model(model_filename, requirements_filename, model_file, requirements_file) ==
  LET outcome == deploy_outcome(model_filename, requirements_filename,
                                model_file, requirements_file)
      deployment_id == uuid4(nextId)
      ext == file_ext(model_filename)
      v == validate_model(ext, model_file)
      r == validate_requirements(requirements_file)
  IN
  /\ running = 0
  /\ IF outcome \in {"bad_extension", "bad_requirements_name"}
     THEN UNCHANGED <<deployments, uploads, tasks, running, now, nextId, subs,
                      built, pipelines, call, ret, AdapterVars, TriggerVars>>
     ELSE
       /\ nextId < MaxIds
       /\ nextId' = nextId + 1
       /\ UNCHANGED <<running, now, built, call, ret, AdapterVars, TriggerVars>>
       /\ IF outcome = "invalid_model"
          THEN \* the HTTPException is caught by the except clause, which
               \* removes the directory again
               /\ subs' = Put(subs, deployment_id,
                              [model_errors |-> v.metadata.errors,
                               requirements_errors |-> <<>>,
                               size |-> model_file.size,
                               load_attempted |-> v.load_attempted])
               /\ UNCHANGED <<deployments, uploads, tasks, pipelines>>
          ELSE
               /\ uploads' = Put(uploads, deployment_id,
                                 [model_ext |-> ext,
                                  requirements |-> requirements_file])
               /\ deployments' = Put(deployments, deployment_id,
                                     new_deployment_info(now, v.metadata))
               /\ subs' = Put(subs, deployment_id,
                              [model_errors |-> v.metadata.errors,
                               requirements_errors |-> r.errors,
                               size |-> model_file.size,
                               load_attempted |-> v.load_attempted])
               /\ tasks' = Put(tasks, deployment_id,
                               [pc |-> "queued", wake |-> 0,
                                framework |-> v.metadata.framework])
               /\ pipelines' = TaskAdded(pipelines, deployment_id)

(***************************************************************************)
(* GET /api/v1/deployments (app.py:293-303).  list.sort(reverse=True) is   *)
(* stable: records with equal created_at keep the dict's insertion order,  *)
(* which is the order of the ids.                                          *)
(***************************************************************************)
\* Variant: the sort without reverse=True.
ListedBefore_ascending(store, d, e) ==
  \/ store[d].created_at < store[e].created_at
  \/ store[d].created_at = store[e].created_at /\ d < e

\* d comes before e in the listing
ListedBefore(store, d, e) ==
  \/ store[d].created_at > store[e].created_at
  \/ store[d].created_at = store[e].created_at /\ d < e

RECURSIVE SortedIds(_, _)
SortedIds(store, S) ==
  IF S = {} THEN <<>>
  ELSE LET first == CHOOSE d \in S : \A e \in S \ {d} : ListedBefore(store, d, e)
       IN <<first>> \o SortedIds(store, S \ {first})

\* DeploymentListResponse (app.py:63-65, 300-303)
list_response ==
  LET deployment_list == SortedIds(deployments, DOMAIN deployments) IN
  [code |-> 200, detail |-> "",
   body |-> [i \in 1..Len(deployment_list) |->
               DeploymentResponse(deployment_list[i],
                                  deployments[deployment_list[i]])],
   total |-> Len(deployment_list)]

list_deployments ==
  /\ running = 0
  /\ UNCHANGED <<deployments, uploads, tasks, running, now, nextId, subs, built,
                  pipelines, call, ret, AdapterVars, TriggerVars>>

(***************************************************************************)
(* GET /api/v1/deployments/{id} (app.py:306-323).  timedelta.seconds is    *)
(* the seconds part of the difference, without its days.                   *)
(***************************************************************************)
timedelta_seconds(later, earlier) == (later - earlier) % SecondsPerDay

\* Variant: the promotion without the test of the status.
simulate_completion_any_status(deployment_id, deployment, utcnow) ==
  IF timedelta_seconds(utcnow, deployment.created_at) > SimulatedDeploySeconds
  THEN mark_active(deployment, deployment_id)
  ELSE deployment

\* Variant: the address is written outside the test of the status.
simulate_completion_url_outside(deployment_id, deployment, utcnow) ==
  IF timedelta_seconds(utcnow, deployment.created_at) > SimulatedDeploySeconds
  THEN IF deployment.status = "deploying"
       THEN mark_active(deployment, deployment_id)
       ELSE [deployment EXCEPT !.endpoint_url = endpoint_for(deployment_id)]
  ELSE deployment

\* app.py:316-321: the record as the handler leaves it.
simulate_completion(deployment_id, deployment, utcnow) ==
  IF /\ deployment.status = "deploying"
     /\ timedelta_seconds(utcnow, deployment.created_at) > SimulatedDeploySeconds
  THEN mark_active(deployment, deployment_id)
  ELSE deployment

get_response(deployment_id) ==
  IF deployment_id \notin DOMAIN deployments
  THEN Response(404, "Deployment not found", <<>>)
  ELSE Response(200, "",
         <<DeploymentResponse(deployment_id,
             simulate_completion(deployment_id, deployments[deployment_id], now))>>)

get_deployment(deployment_id) ==
  /\ running = 0
  /\ IF deployment_id \notin DOMAIN deployments
     THEN UNCHANGED deployments
     ELSE LET after == simulate_completion(deployment_id,
                                           deployments[deployment_id], now)
          IN deployments' = [deployments EXCEPT ![deployment_id] = after]
  /\ UNCHANGED <<uploads, tasks, running, now, nextId, subs, built, pipelines,
                  call, ret, AdapterVars, TriggerVars>>

(***************************************************************************)
(* DELETE /api/v1/deployments/{id} (app.py:326-343).  rmtree_ok is whether *)
(* shutil.rmtree succeeds; when it raises, the handler is left before the  *)
(* record is removed.                                                      *)
(***************************************************************************)
delete_outcome(deployment_id, rmtree_ok) ==
  IF deployment_id \notin DOMAIN deployments THEN "not_found"
  ELSE IF deployment_id \in DOMAIN uploads /\ ~rmtree_ok THEN "cleanup_raised"
  ELSE "deleted"

delete_response(deployment_id, rmtree_ok) ==
  LET outcome == delete_outcome(deployment_id, rmtree_ok) IN
  CASE outcome = "not_found" -> Response(404, "Deployment not found", <<>>)
    [] outcome = "cleanup_raised" -> Response(500, "Internal server error", <<>>)
    [] OTHER -> Response(200, "Deployment deleted successfully", <<>>)

delete_deployment(deployment_id, rmtree_ok) ==
  /\ running = 0
  /\ IF delete_outcome(deployment_id, rmtree_ok) = "deleted"
     THEN /\ uploads' = Del(uploads, deployment_id)
          /\ deployments' = Del(deployments, deployment_id)
     ELSE UNCHANGED <<deployments, uploads>>
  /\ UNCHANGED <<tasks, running, now, nextId, subs, built, pipelines, call, ret, AdapterVars, TriggerVars>>

(***************************************************************************)
(* deploy_model_background (app.py:368-419).                               *)
(***************************************************************************)
\* Variant: the except clause only logs.
OnException_log_only(d, message) ==
  /\ UNCHANGED deployments
  /\ tasks' = Del(tasks, d)
  /\ pipelines' = TaskEnded(pipelines, d)
  /\ running' = 0

\* The except clause (app.py:415-419).
OnException(d, message) ==
  /\ deployments' =
       IF d \in DOMAIN deployments
       THEN [deployments EXCEPT ![d] = mark_failed(deployments[d], message)]
       ELSE deployments
  /\ tasks' = Del(tasks, d)
  /\ pipelines' = TaskEnded(pipelines, d)
  /\ running' = 0

\* app.py:376-378: the task starts and writes "building".
BgStart(d) ==
  /\ running = 0
  /\ d \in DOMAIN tasks /\ tasks[d].pc = "queued"
  /\ deployments' =
       IF d \in DOMAIN deployments
       THEN [deployments EXCEPT ![d] = mark_building(deployments[d])]
       ELSE deployments
  /\ tasks' = [tasks EXCEPT ![d] = [@ EXCEPT !.pc = "building"]]
  /\ running' = d
  /\ UNCHANGED <<uploads, now, nextId, subs, built, pipelines, call, ret, AdapterVars, TriggerVars>>

StoredRequirements(d) ==
  IF d \in DOMAIN uploads THEN uploads[d].requirements
  ELSE [exists |-> FALSE, lines |-> <<>>]

\* app.py:380-386
BgValidate(d) ==
  /\ running = d
  /\ tasks[d].pc = "building"
  /\ LET res == builder_validate_requirements(StoredRequirements(d)) IN
     IF ~res.valid
     THEN OnException(d, <<"Invalid requirements: ", res.result>>)
     ELSE /\ tasks' = [tasks EXCEPT ![d] = [@ EXCEPT !.pc = "validated"]]
          /\ UNCHANGED <<deployments, running, pipelines>>
  /\ UNCHANGED <<uploads, now, nextId, subs, built, call, ret, AdapterVars, TriggerVars>>

\* Variant: a sleep that does not end.
wake_time_never(t) == MaxTime + 1

\* app.py:406: when asyncio.sleep(10) is over.  The clock of the model
\* stops at MaxTime, which stands for every later time.
wake_time(t) == IF t + SleepSeconds < MaxTime THEN t + SleepSeconds ELSE MaxTime

\* app.py:388-406: build, write "deploying", then await asyncio.sleep(10),
\* which gives the event loop back.
BgBuild(d, env) ==
  /\ running = d
  /\ tasks[d].pc = "validated"
  /\ built' = built \cup {d}
  /\ LET b == build_image(d \in DOMAIN uploads, d \in DOMAIN uploads, d, env) IN
     IF ~b.success
     THEN OnException(d, <<"Docker build failed: ">> \o b.result)
     ELSE /\ deployments' =
               IF d \in DOMAIN deployments
               THEN [deployments EXCEPT ![d] = mark_deploying(deployments[d], b.result)]
               ELSE deployments
          /\ tasks' = [tasks EXCEPT ![d] = [@ EXCEPT !.pc = "sleeping",
                                                     !.wake = wake_time(now)]]
          /\ running' = 0
          /\ UNCHANGED pipelines
  /\ UNCHANGED <<uploads, now, nextId, subs, call, ret, AdapterVars, TriggerVars>>

\* The publish step.  DockerBuilder.push_to_ecr (docker_builder.py:112-140)
\* is never called by the task and nothing provisions a serving target:
\* between "deploying" and "active" the task only sleeps (app.py:405-411).
\* The ids whose image was pushed, and those with a serving target.
pushed == {}
provisioned == {}

\* app.py:408-413: the sleep is over.
BgWake(d) ==
  /\ running = 0
  /\ d \in DOMAIN tasks /\ tasks[d].pc = "sleeping"
  /\ now >= tasks[d].wake
  /\ deployments' =
       IF d \in DOMAIN deployments
       THEN [deployments EXCEPT ![d] = mark_active(deployments[d], d)]
       ELSE deployments
  /\ tasks' = Del(tasks, d)
  /\ pipelines' = TaskEnded(pipelines, d)
  /\ UNCHANGED <<uploads, running, now, nextId, subs, built, call, ret, AdapterVars, TriggerVars>>

\* Time passes, also while a task holds the event loop.  The clock is
\* looked at at the start and at these moments: a sleep begun at the start
\* is over at MaxTime and a record created then is older than the simulated
\* completion time.
Moments == {MaxTime}

Tick(t) ==
  /\ t > now
  /\ t <= MaxTime
  /\ now' = t
  /\ UNCHANGED <<deployments, uploads, tasks, running, nextId, subs, built,
                  pipelines, call, ret, AdapterVars, TriggerVars>>

AnyModelFile == CHOOSE m \in ModelFiles : TRUE
AnyRequirementsFile == CHOOSE r \in RequirementsFiles : TRUE

\* A request refused on a filename never reads the files.
Deploy ==
  \E mf \in ModelFilenames, rf \in RequirementsFilenames :
    IF extension_supported(file_ext(mf)) /\ requirements_name_ok(rf)
    THEN \E m \in ModelFiles, r \in RequirementsFiles :
           deploy_model(mf, rf, m, r)
    ELSE deploy_model(mf, rf, AnyModelFile, AnyRequirementsFile)

List == list_deployments

Get == \E d \in Ids : get_deployment(d)

Delete == \E d \in Ids, ok \in BOOLEAN : delete_deployment(d, ok)

Background ==
  \E d \in Ids :
    \/ BgStart(d)
    \/ BgValidate(d)
    \/ \E env \in BuildEnvs : BgBuild(d, env)
    \/ BgWake(d)

Clock == \E t \in Moments : Tick(t)

Next == Deploy \/ List \/ Get \/ Delete \/ Background \/ Clock

Spec == Init /\ [][Next]_vars

\* The event loop goes on running the tasks that are ready, and time
\* passes.
Fairness == WF_vars(Background) /\ WF_vars(Clock)

FairSpec == Spec /\ Fairness

\* The service stays up for more than a day: the wall clock read by
\* datetime.utcnow() (app.py:266, 319) moves on by 24 hours.
Overnight ==
  /\ now < SecondsPerDay
  /\ now' = now + SecondsPerDay
  /\ UNCHANGED <<deployments, uploads, tasks, running, nextId, subs, built,
                  pipelines, call, ret, AdapterVars, TriggerVars>>

LongNext == Next \/ Overnight

LongSpec == Init /\ [][LongNext]_vars

(***************************************************************************)
(* Properties.                                                             *)
(***************************************************************************)
Stored(d) == d \in DOMAIN deployments

\* The submissions that got a record: their model was found valid.
Created(log, d) == d \in DOMAIN log /\ log[d].model_errors = <<>>

\* The status a client can observe for an id: that of its record, "deleted"
\* once the record of a created deployment is gone, "none" before.
ObservedIn(store, log, d) ==
  IF d \in DOMAIN store THEN store[d].status
  ELSE IF Created(log, d) THEN "deleted"
  ELSE "none"

StatusOrder == <<"validating", "building", "deploying", "active">>

\* One step along validating, building, deploying, active; failure from any
\* of them; deletion from any status.
Forward(a, b) ==
  \/ a = "none" /\ b = "validating"
  \/ \E i \in 1..(Len(StatusOrder) - 1) : a = StatusOrder[i] /\ b = StatusOrder[i + 1]
  \/ a \in SeqToSet(StatusOrder) /\ b = "failed"
  \/ a \in SeqToSet(StatusOrder) \cup {"failed"} /\ b = "deleted"

\* C1: the statuses a deployment id is observed with, in order, follow
\* validating, building, deploying, active, optionally failed, then deleted:
\* every change of status is a step forward, none goes back to an earlier
\* status.
C1_StatusMovesForward ==
  [][\A d \in Ids :
       LET a == ObservedIn(deployments, subs, d)
           b == ObservedIn(deployments', subs', d)
       IN a = b \/ Forward(a, b)]_vars

\* A record promoted by GET while its task still sleeps, at a moment when
\* the other id has ended as failed.
C1_Witness ==
  \E d \in DOMAIN deployments, e \in DOMAIN deployments :
    /\ deployments[d].status = "active"
    /\ d \in DOMAIN tasks /\ tasks[d].pc = "sleeping"
    /\ deployments[e].status = "failed"

\* C2: no record has both its endpoint_url and its error_message set.
C2_NotBothSet ==
  \A d \in DOMAIN deployments :
    ~(deployments[d].endpoint_url # Unset /\ deployments[d].error_message # Unset)

\* One record with an address and, older than the simulated completion
\* time, one with an error message.
C2_Witness ==
  \E d \in DOMAIN deployments, e \in DOMAIN deployments :
    /\ deployments[d].endpoint_url # Unset
    /\ deployments[e].error_message # Unset
    /\ timedelta_seconds(now, deployments[e].created_at) > SimulatedDeploySeconds

\* C3: a record has an endpoint_url only while active and an error_message
\* only while failed; in validating, building and deploying neither is set.
C3_FieldsFollowStatus ==
  \A d \in DOMAIN deployments :
    /\ deployments[d].endpoint_url # Unset => deployments[d].status = "active"
    /\ deployments[d].error_message # Unset => deployments[d].status = "failed"
    /\ deployments[d].status \in {"validating", "building", "deploying"} =>
         /\ deployments[d].endpoint_url = Unset
         /\ deployments[d].error_message = Unset

\* A record in deploying next to an active one that has its address.
C3_Witness ==
  \E d \in DOMAIN deployments, e \in DOMAIN deployments :
    /\ deployments[d].status = "deploying"
    /\ deployments[e].status = "active"
    /\ deployments[e].endpoint_url = endpoint_for(e)

\* C4: a submission for which the model validator returned errors never
\* has the image builder invoked and never has a record, so none that
\* reaches building or a later status, nor a background task.
C4_InvalidModelNeverBuilt ==
  \A d \in DOMAIN subs :
    subs[d].model_errors # <<>> =>
      /\ d \notin built
      /\ d \notin DOMAIN deployments
      /\ d \notin DOMAIN tasks

\* A submission refused by the validator, while the builder has run for
\* another one.
C4_Witness ==
  \E d \in DOMAIN subs :
    /\ subs[d].model_errors # <<>>
    /\ subs[d].load_attempted
    /\ built # {}

BuildCause(rec) ==
  /\ rec.error_message # Unset
  /\ rec.error_message[1] = "Docker build failed: "

\* C5: when build_image returns an error for a record in building, the
\* record becomes failed with the build failure as its error_message;
\* a failed record never becomes deploying or active afterwards and never
\* gets an endpoint_url.
C5_BuildErrorFails ==
  [][\A d \in Ids :
       /\ \A env \in BuildEnvs :
            ( /\ BgBuild(d, env)
              /\ Stored(d)
              /\ deployments[d].status = "building"
              /\ ~build_image(d \in DOMAIN uploads, d \in DOMAIN uploads,
                              d, env).success )
            => /\ d \in DOMAIN deployments'
               /\ deployments'[d].status = "failed"
               /\ BuildCause(deployments'[d])
               /\ deployments'[d].endpoint_url = Unset
       /\ ( Stored(d) /\ deployments[d].status = "failed"
            /\ d \in DOMAIN deployments' )
          => /\ deployments'[d].status = "failed"
             /\ deployments'[d].endpoint_url = Unset
             /\ deployments'[d].error_message = deployments[d].error_message
    ]_vars

\* A record failed in the build, older than the simulated completion time.
C5_Witness ==
  \E d \in DOMAIN deployments :
    /\ deployments[d].status = "failed"
    /\ BuildCause(deployments[d])
    /\ d \in built
    /\ timedelta_seconds(now, deployments[d].created_at) > SimulatedDeploySeconds

\* C6: a manifest naming both tensorflow and tensorflow-gpu gets errors from
\* the manifest validator, and a deployment submitted with it never reaches
\* building or a later status and never has the image builder invoked.
C6_ConflictNeverBuilds ==
  /\ validate_requirements(ConflictManifest).errors # <<>>
  /\ \A d \in DOMAIN subs :
       subs[d].requirements_errors # <<>> =>
         /\ d \notin built
         /\ Stored(d) => deployments[d].status = "validating"

\* 500 MiB in bytes.
LimitBytes == 500 * 1024 * 1024

\* C7: for a model file larger than 500 MiB the validator returns errors
\* without having loaded the file, and the submission never has a record,
\* a background task or a build.
C7_OversizeRefusedUnread ==
  /\ \A ext \in SeqToSet(supported_extensions), m \in ModelFiles :
       m.size > LimitBytes =>
         /\ validate_model(ext, m).metadata.errors # <<>>
         /\ ~validate_model(ext, m).is_valid
         /\ ~validate_model(ext, m).load_attempted
  /\ \A d \in DOMAIN subs :
       subs[d].size > LimitBytes =>
         /\ subs[d].model_errors # <<>>
         /\ ~subs[d].load_attempted
         /\ d \notin DOMAIN deployments
         /\ d \notin DOMAIN tasks
         /\ d \notin built

\* An oversize submission has been handled and another one was accepted.
C7_Witness ==
  \E d \in DOMAIN subs :
    /\ subs[d].size > LimitBytes
    /\ deployments # <<>>

\* The extensions the service documents as supported.
DocumentedExtensions == {".pkl", ".pt", ".pth", ".h5", ".keras"}

Unsupported(model_filename) ==
  \A e \in DocumentedExtensions : LowerTok(model_filename[2]) # e

\* C8: a deploy request whose model filename has an unsupported extension is
\* answered 400 with the list of supported formats, and no step of that
\* request changes the deployment store, the upload directory or the set of
\* background tasks.
C8_BadExtensionRejected ==
  \A mf \in ModelFilenames :
    Unsupported(mf) =>
      /\ \A rf \in RequirementsFilenames, m \in ModelFiles,
            r \in RequirementsFiles :
           LET response == deploy_response(mf, rf, m, r) IN
           /\ response.code = 400
           /\ response.detail = "Model file must be one of"
      /\ \A rf \in RequirementsFilenames :
           ~ENABLED ( /\ deploy_model(mf, rf, AnyModelFile, AnyRequirementsFile)
                      /\ <<deployments, uploads, tasks>>'
                           # <<deployments, uploads, tasks>> )

\* The refused request can arrive while a record is stored and its task is
\* queued.
C8_Witness ==
  /\ deployments # <<>>
  /\ \E d \in DOMAIN tasks : tasks[d].pc = "queued"
  /\ \E mf \in ModelFilenames :
       /\ Unsupported(mf)
       /\ deploy_outcome(mf, <<"requirements", ".txt">>, AnyModelFile,
                         AnyRequirementsFile) = "bad_extension"
       /\ ENABLED deploy_model(mf, <<"requirements", ".txt">>, AnyModelFile,
                               AnyRequirementsFile)

\* The ids in the answer of the listing.
ListedIds(response) == {response.body[i].id : i \in 1..Len(response.body)}

\* C9: after a successful delete of an active deployment its record has
\* status deleted, a GET of the id still answers with the record, and the
\* listing leaves it out.
C9_DeletedRecordKept ==
  [][\A d \in Ids :
       ( /\ Stored(d)
         /\ deployments[d].status = "active"
         /\ \E ok \in BOOLEAN : /\ delete_deployment(d, ok)
                                /\ delete_response(d, ok).code = 200 )
       => /\ d \in DOMAIN deployments'
          /\ deployments'[d].status = "deleted"
          /\ get_response(d)'.code = 200
          /\ d \notin ListedIds(list_response)'
    ]_vars

\* C10: a delete request for an active or failed deployment always ends
\* with the record deleted, also when the cleanup of the files fails: no
\* such request leaves the record stored with another status.
C10_DeleteAlwaysDeletes ==
  \A d \in DOMAIN deployments :
    deployments[d].status \in {"active", "failed"} =>
      \A ok \in BOOLEAN :
        ~ENABLED ( /\ delete_deployment(d, ok)
                   /\ d \in DOMAIN deployments'
                   /\ deployments'[d].status # "deleted" )

\* C11: a record is active, with its address, only after the publish step of
\* its deployment has succeeded in both parts: the image was pushed to the
\* registry and the serving target was provisioned.
C11_ActiveOnlyAfterPublish ==
  \A d \in DOMAIN deployments :
    deployments[d].status = "active" =>
      /\ d \in pushed
      /\ d \in provisioned

\* The manifest stored for d has an exact pin on every line.
Pinned(d) == d \in DOMAIN uploads /\ uploads[d].requirements = PinnedManifest

ActiveWithAddress(rec) ==
  /\ rec.status = "active"
  /\ rec.endpoint_url # Unset
  /\ rec.error_message = Unset

\* C12: with the background task scheduled fairly, every stored record is
\* eventually active or failed unless it is deleted; a record fails only
\* because its build failed; and a record with a pinned manifest whose build
\* has succeeded is eventually active with an address and no error message,
\* unless it is deleted.
C12_EventuallySettled ==
  \A d \in Ids :
    /\ Stored(d) ~> (~Stored(d) \/ deployments[d].status \in {"active", "failed"})
    /\ [](Stored(d) /\ deployments[d].status = "failed" => BuildCause(deployments[d]))
    /\ (Stored(d) /\ Pinned(d) /\ deployments[d].status = "deploying")
         ~> (~Stored(d) \/ ActiveWithAddress(deployments[d]))

\* A record with the pinned manifest that went through the build and the
\* sleep of its task and is active, created at the last moment of the clock.
C12_Witness ==
  \E d \in DOMAIN deployments :
    /\ Pinned(d)
    /\ d \in built
    /\ d \notin DOMAIN tasks
    /\ ActiveWithAddress(deployments[d])
    /\ deployments[d].created_at = MaxTime

\* C13: for every deployment id at most one background pipeline (validate,
\* build, publish) is in flight at any time, however many deployments are
\* submitted; the task that holds the event loop is one of them.
C13_OnePipelinePerId ==
  /\ \A d \in Ids : InFlight(pipelines, d) <= 1
  /\ DOMAIN pipelines = DOMAIN tasks
  /\ running # 0 => InFlight(pipelines, running) = 1

\* The pipelines of two ids overlap: one sleeps while the other builds.
C13_Witness ==
  \E d \in DOMAIN tasks, e \in DOMAIN tasks :
    /\ d # e
    /\ InFlight(pipelines, d) = 1 /\ InFlight(pipelines, e) = 1
    /\ tasks[d].pc = "sleeping"
    /\ running = e /\ tasks[e].pc = "validated"

\* C14: the request that creates a record answers 200 with that record in
\* status validating and without endpoint_url, as it is stored; at that
\* moment the background task of the record is only queued and build_image
\* has not been called for it, so building and later statuses show up only
\* in later requests.
C14_SubmitReturnsBeforePipeline ==
  [][\A d \in Ids :
       (d \notin DOMAIN deployments /\ d \in DOMAIN deployments') =>
         /\ deployments'[d].status = "validating"
         /\ deployments'[d].endpoint_url = Unset
         /\ d \in DOMAIN tasks' /\ tasks'[d].pc = "queued"
         /\ d \notin built'
         /\ \E mf \in ModelFilenames, rf \in RequirementsFilenames,
               m \in ModelFiles, r \in RequirementsFiles :
              /\ deploy_model(mf, rf, m, r)
              /\ deploy_response(mf, rf, m, r) =
                   Response(200, "", <<DeploymentResponse(d, deployments'[d])>>)
    ]_vars

\* A record just created, its task queued, next to an active one.
C14_Witness ==
  \E d \in DOMAIN deployments, e \in DOMAIN deployments :
    /\ deployments[d].status = "validating"
    /\ tasks[d].pc = "queued"
    /\ d \notin built
    /\ deployments[e].status = "active"

\* C15: the listing holds exactly the records of the store, each once and as
\* stored, ordered by created_at descending, with total the number of records
\* listed; a GET of an id answers 404 when no record is stored under it and
\* otherwise with the record stored under it (as stored once the request is
\* done, for a record the request promotes).
C15_ListAndGet ==
  /\ [](LET listing == list_response IN
        /\ listing.code = 200
        /\ ListedIds(listing) = DOMAIN deployments
        /\ Len(listing.body) = Cardinality(DOMAIN deployments)
        /\ listing.total = Len(listing.body)
        /\ \A i \in 1..Len(listing.body) :
             listing.body[i] =
               DeploymentResponse(listing.body[i].id, deployments[listing.body[i].id])
        /\ \A i \in 1..Len(listing.body), j \in 1..Len(listing.body) :
             i < j => listing.body[i].created_at >= listing.body[j].created_at)
  /\ [](\A d \in Ids :
          LET response == get_response(d) IN
          IF d \notin DOMAIN deployments
          THEN response.code = 404 /\ response.body = <<>>
          ELSE /\ response.code = 200
               /\ Len(response.body) = 1
               /\ response.body[1].id = d
               /\ deployments[d].status # "deploying" =>
                    response.body[1] = DeploymentResponse(d, deployments[d]))
  /\ [][\A d \in Ids :
          (get_deployment(d) /\ d \in DOMAIN deployments) =>
            get_response(d).body = <<DeploymentResponse(d, deployments'[d])>>]_vars

\* Two records created at different times, the later one listed first, and
\* the earlier one promoted by a GET.
C15_Witness ==
  \E d \in DOMAIN deployments, e \in DOMAIN deployments :
    /\ deployments[d].created_at < deployments[e].created_at
    /\ list_response.total = 2
    /\ list_response.body[1].id = e
    /\ deployments[d].status = "active"
    /\ d \in DOMAIN tasks


(***************************************************************************)
(* Direct calls of the validators, as the unit tests make them             *)
(* (tests/test_model_validator.py): one call with arguments drawn from the *)
(* sets below, and its outcome in ret.  The service's state is not         *)
(* touched by these calls.                                                 *)
(***************************************************************************)
MaxLines == 3

CallExtensions == {".pkl", ".pt", ".h5", ".exe"}

\* Files to validate: present or not, small or one byte over the limit,
\* every loader outcome, objects with and without predict, with and
\* without a declared width, accepting no probe, the probe 4 or the probe
\* 784, full models and state dicts.
CallFiles ==
  [exists : BOOLEAN, size : {2048, MaxSizeMb * BytesPerMb + 1},
   load : {"ok", "error", "import_error"}, has_predict : BOOLEAN,
   declared : {0, 4}, accepts : {{}, {4}, {784}}, is_dict : BOOLEAN,
   has_proba : {TRUE}, has_score : {TRUE}]

\* Lines of a requirements file: an exact pin, a range, a bare name, a
\* blank line, a comment, a line with two "==", and the pair of packages
\* the conflict check looks for.
CallLines ==
  { <<"numpy", "==", "1.24.3">>,
    <<"pandas", ">=", "1.5.0">>,
    <<"scipy">>,
    <<" ">>,
    <<"#", " ", "gpu">>,
    <<"numpy", "==", "1.24.3", "==", "1.25.0">>,
    <<"tensorflow", "==", "2.13.0">>,
    <<"TensorFlow-GPU", "==", "2.13.0">> }

RECURSIVE LinesUpTo(_)
LinesUpTo(n) ==
  IF n = 0 THEN { <<>> }
  ELSE LET shorter == LinesUpTo(n - 1) IN
       shorter \cup {Append(ls, l) : ls \in shorter, l \in CallLines}

CallManifests ==
  {ReqFile(ls) : ls \in LinesUpTo(MaxLines)} \cup {[exists |-> FALSE, lines |-> <<>>]}

\* How many times in a row build_image is called with the same arguments.
MaxBuildCalls == 2

BuildCalls ==
  {[fn |-> "build_image", model_exists |-> me, requirements_exists |-> re,
    deployment_id |-> d, env |-> env] :
      me \in BOOLEAN, re \in BOOLEAN, d \in Ids, env \in BuildEnvs}

\* Files whose size is estimated: the manifests above and some that name
\* the other known packages, one of them twice and one inside a comment.
EstimateFiles ==
  CallManifests
  \cup { ReqFile(<< <<"pytorch", "==", "2.0.1">> >>),
         ReqFile(<< <<"torch", "==", "2.0.1">>, <<"torchvision", "==", "0.15.2">> >>),
         ReqFile(<< <<"scikit-learn", "==", "1.3.0">>, <<"#", " ", "sklearn">> >>),
         ReqFile(<< <<"flask", "==", "3.0.0">> >>) }

Calls ==
  {[fn |-> "validate_model", ext |-> e, file |-> f] :
      e \in CallExtensions, f \in CallFiles}
  \cup {[fn |-> "validate_requirements", file |-> f] : f \in CallManifests}
  \cup BuildCalls
  \cup {[fn |-> "estimate_image_size", file |-> f] : f \in EstimateFiles}

CallInit ==
  /\ deployments = <<>>
  /\ uploads = <<>>
  /\ tasks = <<>>
  /\ running = 0
  /\ now = 0
  /\ nextId = 0
  /\ subs = <<>>
  /\ built = {}
  /\ pipelines = <<>>
  /\ call \in Calls
  /\ ret = NoReturn
  /\ AdapterInit
  /\ TriggerIdle

ServiceState == <<deployments, uploads, tasks, running, now, nextId, subs, built, pipelines>>

\* is_valid, metadata = ModelValidator.validate_model(path)
CallValidateModel ==
  /\ call.fn = "validate_model"
  /\ ret = NoReturn
  /\ ret' = validate_model(call.ext, call.file)
  /\ UNCHANGED <<ServiceState, call, AdapterVars, TriggerVars>>

\* is_valid, metadata = ModelValidator.validate_requirements(path)
CallValidateRequirements ==
  /\ call.fn = "validate_requirements"
  /\ ret = NoReturn
  /\ ret' = validate_requirements(call.file)
  /\ UNCHANGED <<ServiceState, call, AdapterVars, TriggerVars>>

\* size_mb = docker_builder.estimate_image_size(path)
CallEstimateImageSize ==
  /\ call.fn = "estimate_image_size"
  /\ ret = NoReturn
  /\ ret' = [size_mb |-> estimate_image_size(call.file)]
  /\ UNCHANGED <<ServiceState, call, AdapterVars, TriggerVars>>

\* Variant: the directory is made with mkdtemp and never removed.
TemporaryDirectory_exit_leak(dirs, dir) == dirs

\* tempfile.TemporaryDirectory.__exit__ (docker_builder.py:37): leaving the
\* with block, by return or by exception, removes the directory.
TemporaryDirectory_exit(dirs, dir) == dirs \ {dir}

\* For a series of build_image calls ret is [results, workspaces, inside,
\* made]: what the finished calls returned, the build directories that
\* exist, the directory of the call in progress (0 when none is), and the
\* number of directories made so far.
NoBuild == [results |-> <<>>, workspaces |-> {}, inside |-> 0, made |-> 0]

BuildProgress == IF ret = NoReturn THEN NoBuild ELSE ret

\* docker_builder.py:37: the call enters the with block; mkdtemp makes a
\* directory with a fresh name.
CallBuildEnter ==
  /\ call.fn = "build_image"
  /\ BuildProgress.inside = 0
  /\ Len(BuildProgress.results) < MaxBuildCalls
  /\ LET dir == BuildProgress.made + 1 IN
     ret' = [BuildProgress EXCEPT !.workspaces = @ \cup {dir}, !.inside = dir,
                                  !.made = dir]
  /\ UNCHANGED <<ServiceState, call, AdapterVars, TriggerVars>>

\* docker_builder.py:40-85: the copies and docker build run, the with block
\* is left and the call returns.
CallBuildReturn ==
  /\ call.fn = "build_image"
  /\ ret # NoReturn
  /\ ret.inside # 0
  /\ ret' = [ret EXCEPT
               !.results = Append(@, build_image(call.model_exists,
                                                 call.requirements_exists,
                                                 call.deployment_id, call.env)),
               !.workspaces = TemporaryDirectory_exit(@, ret.inside),
               !.inside = 0]
  /\ UNCHANGED <<ServiceState, call, AdapterVars, TriggerVars>>

CallNext ==
  \/ CallValidateModel
  \/ CallValidateRequirements
  \/ CallBuildEnter
  \/ CallBuildReturn
  \/ CallEstimateImageSize

CallSpec == CallInit /\ [][CallNext]_vars

Returned == ret # NoReturn

(***************************************************************************)
(* The inference adapter, templates/wrapper.py.  One execution environment *)
(* runs one invocation at a time.  An artifact path is <<stem, extension>>.*)
(* A model is [id, loader]: id numbers the objects the loaders have made   *)
(* in this environment, so two loads never give the same object.  What a   *)
(* loader does with the file at the path (outcome "ok" or "error") is      *)
(* decided at each attempt.                                                *)
(***************************************************************************)
MaxInvocations == 3

ArtifactPaths ==
  { <<"/opt/ml/model", ".pkl">>, <<"/opt/ml/model", ".pt">>,
    <<"/opt/ml/model", ".h5">>, <<"/opt/ml/model", ".bin">> }

\* docker_builder.py:41-42: the name the artifact is given in the build
\* context, whatever the name of the uploaded file (app.py:231-232 saves
\* it as model<ext>).
model_dest(model_path) == <<"model", ".pkl">>

\* wrapper.py:22: the path the adapter loads from when MODEL_PATH is not
\* set.
default_model_path == <<"/opt/ml/model", ".pkl">>

\* wrapper.py:33-44: the loader chosen from the end of the path.
loader_for(model_path) ==
  CASE model_path[2] = ".pkl" -> "pickle"
    [] model_path[2] \in {".pt", ".pth"} -> "torch"
    [] model_path[2] \in {".h5", ".keras"} -> "keras"
    [] OTHER -> "unsupported"

\* What a call inside the adapter gives back: the value, or the class of
\* the exception that left it, with the cache and the load count after it.
Returns(value, cache, count) ==
  [raised |-> "", value |-> value, cache |-> cache, loads |-> count]

Raises(type, cache, count) ==
  [raised |-> type, value |-> None, cache |-> cache, loads |-> count]

\* Variant: the cache is not consulted.
load_model_uncached(model_path, outcome, cache, count) ==
  IF loader_for(model_path) = "unsupported" THEN Raises("ValueError", cache, count)
  ELSE IF outcome # "ok" THEN Raises("LoadError", cache, count)
  ELSE LET model == [id |-> count + 1, loader |-> loader_for(model_path)] IN
       Returns(model, Put(cache, model_path, model), count + 1)

\* wrapper.py:19-53.
load_model(model_path, outcome, cache, count) ==
  IF model_path \in DOMAIN cache THEN Returns(cache[model_path], cache, count)
  ELSE IF loader_for(model_path) = "unsupported"
    THEN Raises("ValueError", cache, count)
  ELSE IF outcome # "ok" THEN Raises("LoadError", cache, count)
  ELSE LET model == [id |-> count + 1, loader |-> loader_for(model_path)] IN
       Returns(model, Put(cache, model_path, model), count + 1)

\* Events: body is the request body ("object": JSON text of an object,
\* "array": JSON text of an array, "garbage": text that is no JSON); data
\* says whether the model accepts the input it is given; output whether
\* the prediction can be written as JSON.
AdapterEvents ==
  [body : {"object", "array", "garbage"}, data : {"accepted", "rejected"},
   output : {"json", "not_json"}]

\* The try block of lambda_handler, wrapper.py:142-189.
handler_try(model_path, event, outcome, cache, count) ==
  IF event.body = "garbage" THEN Raises("JSONDecodeError", cache, count)
  ELSE IF event.body = "array" THEN Raises("AttributeError", cache, count)
  ELSE LET l == load_model(model_path, outcome, cache, count) IN
       IF l.raised # "" THEN l
       ELSE IF event.data = "rejected" THEN Raises("ValueError", l.cache, l.loads)
       ELSE IF event.output = "not_json" THEN Raises("TypeError", l.cache, l.loads)
       ELSE Returns([statusCode |-> 200, type |-> "", model |-> l.value],
                    l.cache, l.loads)

\* Variant: the handler has no except clause.
lambda_handler_unguarded(model_path, event, outcome, cache, count) ==
  handler_try(model_path, event, outcome, cache, count)

\* wrapper.py:138-205: except Exception returns the 500 response.
lambda_handler(model_path, event, outcome, cache, count) ==
  LET r == handler_try(model_path, event, outcome, cache, count) IN
  IF r.raised # ""
  THEN Returns([statusCode |-> 500, type |-> r.raised, model |-> None],
               r.cache, r.loads)
  ELSE r

\* A request reaches the adapter.  MODEL_PATH is read from the environment
\* at every call (wrapper.py:22).
Invoke(model_path, event, outcome) ==
  /\ adapter_response.request < MaxInvocations
  /\ LET r == lambda_handler(model_path, event, outcome, MODEL_CACHE, loads) IN
     /\ adapter_response' =
          [request |-> adapter_response.request + 1, fn |-> "lambda_handler",
           path |-> model_path, event |-> event, raised |-> r.raised,
           statusCode |-> IF r.raised = "" THEN r.value.statusCode ELSE 0,
           type |-> IF r.raised = "" THEN r.value.type ELSE r.raised,
           model |-> IF r.raised = "" THEN r.value.model ELSE None]
     /\ MODEL_CACHE' = r.cache
     /\ loads' = r.loads
  /\ UNCHANGED <<ServiceState, call, ret, TriggerVars>>

\* wrapper.py:208-229: health_check loads the model and answers 200 or 503.
HealthCheck(model_path, outcome) ==
  /\ adapter_response.request < MaxInvocations
  /\ LET l == load_model(model_path, outcome, MODEL_CACHE, loads) IN
     /\ adapter_response' =
          [request |-> adapter_response.request + 1, fn |-> "health_check",
           path |-> model_path, event |-> None, raised |-> "",
           statusCode |-> IF l.raised = "" THEN 200 ELSE 503,
           type |-> "", model |-> l.value]
     /\ MODEL_CACHE' = l.cache
     /\ loads' = l.loads
  /\ UNCHANGED <<ServiceState, call, ret, TriggerVars>>

AdapterNext ==
  \E model_path \in ArtifactPaths, outcome \in {"ok", "error"} :
    \/ \E event \in AdapterEvents : Invoke(model_path, event, outcome)
    \/ HealthCheck(model_path, outcome)

AdapterSpec == Init /\ [][AdapterNext]_vars

(***************************************************************************)
(* The S3 trigger function, lambda_functions/s3_trigger.py.  An object key *)
(* is a token sequence with "/" tokens.  An event record is                *)
(*   [key, body, exists, github]                                           *)
(* key: the key of the object; body: what json.loads makes of the object   *)
(* ("object", "array", or "garbage" when it raises); exists: the files of  *)
(* the deployment's folder that head_object finds; github: the status of   *)
(* the dispatch request.  The handler's loop takes one record per step.    *)
(***************************************************************************)
MaxRecords == 2

DeploymentNames == {"a", "b"}

Key(parts) ==
  IF Len(parts) = 1 THEN <<parts[1]>>
  ELSE IF Len(parts) = 2 THEN <<parts[1], "/", parts[2]>>
  ELSE IF Len(parts) = 3 THEN <<parts[1], "/", parts[2], "/", parts[3]>>
  ELSE <<parts[1], "/", parts[2], "/", parts[3], "/", parts[4]>>

\* Keys that name a trigger file in a deployment folder, and keys below one.
TriggerLikeKeys ==
  {Key(<<"deployments", d, "trigger.json">>) : d \in DeploymentNames}
  \cup {Key(<<"deployments", d, "trigger.json", "backup">>) : d \in DeploymentNames}

OtherKeys ==
  {Key(<<"deployments", d, "model.pkl">>) : d \in DeploymentNames}
  \cup {Key(<<"uploads", d, "trigger.json">>) : d \in DeploymentNames}
  \cup {Key(<<"deployments", "trigger.json">>)}

RequiredFiles == {"model.pkl", "requirements.txt"}

EventRecords ==
  {[key |-> k, body |-> b, exists |-> e, github |-> g] :
     k \in TriggerLikeKeys, b \in {"object", "garbage"},
     e \in {RequiredFiles, {"model.pkl"}, {"requirements.txt"}},
     g \in {204, 401}}
  \cup {[key |-> k, body |-> "object", exists |-> RequiredFiles, github |-> 204] :
          k \in OtherKeys}

RECURSIVE EventsUpTo(_)
EventsUpTo(n) ==
  IF n = 0 THEN { <<>> }
  ELSE LET shorter == EventsUpTo(n - 1) IN
       shorter \cup {Append(rs, r) : rs \in shorter, r \in EventRecords}

\* s3_trigger.py:152-190.  The module never imports datetime, so building
\* expr_values (164-166) raises NameError inside the try block; the except
\* clause logs it and table.update_item is never reached.
update_deployment_status(updates, deployment_id, status) == updates

\* s3_trigger.py:107-149: the dispatch request; True only for status 204.
trigger_github_workflow(requests, deployment_id, github) ==
  [success |-> github = 204,
   requests |-> IF github = 204
                THEN Append(requests,
                       [deployment_id |-> deployment_id,
                        model_path |-> Key(<<"deployments", deployment_id, "model.pkl">>),
                        requirements_path |->
                          Key(<<"deployments", deployment_id, "requirements.txt">>)])
                ELSE requests]

\* s3_trigger.py:41-92, the body of the loop for one record.
process_record(record, requests, updates) ==
  LET path_parts == split(record.key, "/") IN
  IF Len(path_parts) < 3 \/ path_parts[1] # <<"deployments">>
  THEN [raised |-> FALSE, requests |-> requests, updates |-> updates]
  ELSE LET deployment_id == path_parts[2][1]
           filename == path_parts[3]
       IN
       IF filename # <<"trigger.json">>
       THEN [raised |-> FALSE, requests |-> requests, updates |-> updates]
       ELSE IF record.body = "garbage"
       THEN [raised |-> TRUE, requests |-> requests, updates |-> updates]
       ELSE IF ~(RequiredFiles \subseteq record.exists)
       THEN [raised |-> FALSE, requests |-> requests,
             updates |-> update_deployment_status(updates, deployment_id, "failed")]
       ELSE LET building == update_deployment_status(updates, deployment_id, "building")
                sent == trigger_github_workflow(requests, deployment_id, record.github)
            IN [raised |-> FALSE, requests |-> sent.requests,
                updates |-> IF sent.success THEN building
                            ELSE update_deployment_status(building, deployment_id,
                                                          "failed")]

\* An event is delivered to an idle function.
TriggerInit ==
  /\ deployments = <<>>
  /\ uploads = <<>>
  /\ tasks = <<>>
  /\ running = 0
  /\ now = 0
  /\ nextId = 0
  /\ subs = <<>>
  /\ built = {}
  /\ pipelines = <<>>
  /\ call = NoCall
  /\ ret = NoReturn
  /\ AdapterInit
  /\ records \in EventsUpTo(MaxRecords)
  /\ dispatched = <<>>
  /\ status_updates = <<>>
  /\ trigger_response = NoResponse

\* One turn of `for record in event['Records']`; an exception leaves the
\* loop for the except clause at line 99, which returns 500.
TriggerRecord ==
  /\ trigger_response = NoResponse
  /\ records # <<>>
  /\ LET r == process_record(Head(records), dispatched, status_updates) IN
     /\ dispatched' = r.requests
     /\ status_updates' = r.updates
     /\ records' = Tail(records)
     /\ trigger_response' =
          IF r.raised THEN [request |-> 1, fn |-> "s3_trigger", statusCode |-> 500]
          ELSE trigger_response
  /\ UNCHANGED <<ServiceState, call, ret, AdapterVars>>

\* s3_trigger.py:94-97: the loop is over.
TriggerReturn ==
  /\ trigger_response = NoResponse
  /\ records = <<>>
  /\ trigger_response' = [request |-> 1, fn |-> "s3_trigger", statusCode |-> 200]
  /\ UNCHANGED <<ServiceState, call, ret, AdapterVars, records, dispatched,
                  status_updates>>

TriggerNext == TriggerRecord \/ TriggerReturn

TriggerSpec == TriggerInit /\ [][TriggerNext]_vars

ExposesInference(ext, file) ==
  CASE ext = ".pkl" -> file.has_predict
    [] ext \in {".pt", ".pth"} -> ~file.is_dict
    [] OTHER -> TRUE

\* The candidate inputs the validator tries for the extension.
ProbesOf(ext) ==
  CASE ext = ".pkl" -> SeqToSet(SklearnProbes)
    [] ext \in {".pt", ".pth"} -> SeqToSet(TorchProbes)
    [] OTHER -> {}

\* C17: for every supported framework, a model that deserialized, exposes
\* its inference method, declares no input width and accepts none of the
\* probed candidate inputs is reported valid with an empty errors list and
\* an absent input_shape.
C17_ShapeInferenceNonFatal ==
  (/\ Returned
   /\ call.fn = "validate_model"
   /\ call.ext \in SeqToSet(supported_extensions)
   /\ call.file.exists
   /\ ~TooLarge(call.file.size)
   /\ call.file.load = "ok"
   /\ ExposesInference(call.ext, call.file)
   /\ call.file.declared = 0
   /\ call.file.accepts \cap ProbesOf(call.ext) = {})
  => /\ ret.raised = ""
     /\ ret.is_valid
     /\ ret.metadata.errors = <<>>
     /\ ret.metadata.input_shape = <<>>

\* Shapes of a manifest line, read off its text.
IsContentLine(raw) == strip(raw) # <<>> /\ Head(strip(raw)) # "#"

PinCount(raw) == Len(split(strip(raw), "==")) - 1

HasRangeOperator(raw) ==
  \E i \in 1..Len(raw) : raw[i] \in {">=", "<=", ">", "<"}

IsPinLine(raw) == IsContentLine(raw) /\ PinCount(raw) = 1

IsUnpinnedLine(raw) == IsContentLine(raw) /\ PinCount(raw) = 0

IsMalformedLine(raw) == IsContentLine(raw) /\ PinCount(raw) > 1

\* C18: for every readable manifest, each non-blank, non-comment
\* line yields exactly one package entry, a line with an exact pin adds no
\* warning, a line with a range operator or no operator adds exactly one
\* warning, and a manifest of only such lines is reported valid with no
\* error.
C18_EveryManifestOfSuchLinesValid ==
  (Returned /\ call.fn = "validate_requirements" /\ call.file.exists) =>
    LET content == SelectSeq(call.file.lines, IsContentLine) IN
    /\ Len(ret.packages) = Len(content)
    /\ Len(ret.warnings) = Len(SelectSeq(content, IsUnpinnedLine))
    /\ (\A i \in 1..Len(content) : ~IsMalformedLine(content[i]))
         => ret.valid /\ ret.errors = <<>>

\* C19: parsing never fails on a malformed line: for every readable
\* manifest the call returns a manifest whose errors list holds nothing but
\* package conflicts, whatever the shape of its lines, and every line that
\* is no exact pin, malformed ones included, shows up as a warning.
C19_MalformedLinesOnlyWarn ==
  (Returned /\ call.fn = "validate_requirements" /\ call.file.exists) =>
    /\ \A i \in 1..Len(ret.errors) :
         ret.errors[i] = "Both tensorflow and tensorflow-gpu specified"
    /\ \A i \in 1..Len(call.file.lines) :
         IsMalformedLine(call.file.lines[i]) =>
           \E j \in 1..Len(ret.warnings) :
             ret.warnings[j][2] = strip(call.file.lines[i])

\* C20: build_image is all-or-nothing.  It never raises; it returns
\* success, with the reference serveml-<deployment_id>:latest, only when
\* the model, the requirements and the templates were copied and docker
\* build returned 0, and otherwise a failure with one error message that is
\* no reference.  The task stores the reference on the record only from a
\* successful call: a failed call leaves docker_image unset and the record
\* failed, and every stored reference is the one of the record's own id.
C20_BuildAllOrNothing ==
  /\ [](\A me, re \in BOOLEAN, d \in Ids, env \in BuildEnvs :
          LET b == build_image(me, re, d, env) IN
          /\ ~b.raised
          /\ b.success <=> (me /\ re /\ env.templates_ok /\ env.returncode = 0)
          /\ b.success => b.result = image_name(d)
          /\ ~b.success => Len(b.result) = 1 /\ b.result # image_name(d))
  /\ [](\A d \in DOMAIN deployments :
          deployments[d].docker_image # Unset =>
            /\ d \in built
            /\ deployments[d].docker_image = image_name(d)
            /\ deployments[d].status \in {"deploying", "active"})
  /\ [][\A d \in Ids :
          (d \notin built /\ d \in built') =>
            \E env \in BuildEnvs :
              /\ BgBuild(d, env)
              /\ LET b == build_image(d \in DOMAIN uploads, d \in DOMAIN uploads,
                                      d, env)
                 IN d \in DOMAIN deployments =>
                      IF b.success
                      THEN deployments'[d].docker_image = b.result
                      ELSE /\ deployments'[d].docker_image = Unset
                           /\ deployments'[d].status = "failed"
       ]_vars

\* One record whose build failed and carries no reference, next to one
\* whose build succeeded and carries its own.
C20_Witness ==
  \E d, e \in DOMAIN deployments :
    /\ d \in built /\ e \in built
    /\ deployments[d].status = "failed"
    /\ deployments[d].error_message = <<"Docker build failed: ", "Docker build failed">>
    /\ deployments[d].docker_image = Unset
    /\ deployments[e].docker_image = image_name(e)

KnownPackages == {package_sizes[i].package : i \in 1..Len(package_sizes)}

FixedSize(package) ==
  (CHOOSE e \in SeqToSet(package_sizes) : e.package = package).size

RECURSIVE SumOfSizes(_)
SumOfSizes(packages) ==
  IF packages = {} THEN 0
  ELSE LET p == CHOOSE q \in packages : TRUE IN
       FixedSize(p) + SumOfSizes(packages \ {p})

\* The known names that are substrings of the lower-cased text of the file.
KnownNamesIn(file) ==
  {p \in KnownPackages :
     \E i \in 1..Len(file.lines) : \E k \in 1..Len(file.lines[i]) :
       p \in KnownWithin(LowerTok(file.lines[i][k]))}

\* C22: estimate_image_size returns 250 plus the sum of the fixed sizes of
\* the known package names that occur in the lower-cased manifest text,
\* each name counted once and unknown packages counting nothing; it
\* returns 250 for a manifest that cannot be read; and the call changes
\* nothing of the service's state: no request handler and no step of the
\* background task calls it.
C22_EstimateIsBasePlusKnown ==
  /\ []((call.fn = "estimate_image_size" /\ Returned) =>
          /\ ~call.file.exists => ret.size_mb = 250
          /\ call.file.exists =>
               ret.size_mb = 250 + SumOfSizes(KnownNamesIn(call.file)))
  /\ [][call.fn = "estimate_image_size" => UNCHANGED ServiceState]_vars

\* The estimate for tensorflow, pandas and numpy has been returned: 820.
C22_Witness ==
  /\ call.fn = "estimate_image_size"
  /\ Returned
  /\ call.file = ReqFile(<< <<"tensorflow", "==", "2.13.0">>,
                            <<"numpy", "==", "1.24.3">>,
                            <<"pandas", ">=", "1.5.0">> >>)
  /\ ret.size_mb = 820

\* C23: in one execution environment a model is deserialized for a path
\* only while the path has no cache entry: the number of deserializations
\* equals the number of cached paths, an invocation for a cached path
\* loads nothing and gets the cached object, a successful invocation
\* answers with the object the cache holds for its path, and no step
\* removes or replaces a cache entry.
C23_LoadedOncePerPath ==
  /\ [](loads = Cardinality(DOMAIN MODEL_CACHE))
  /\ []((adapter_response.request > 0 /\ adapter_response.statusCode = 200) =>
          /\ adapter_response.path \in DOMAIN MODEL_CACHE
          /\ adapter_response.model = MODEL_CACHE[adapter_response.path])
  /\ [][\A p \in DOMAIN MODEL_CACHE :
          /\ p \in DOMAIN MODEL_CACHE'
          /\ MODEL_CACHE'[p] = MODEL_CACHE[p]
          /\ adapter_response'.path = p => loads' = loads
       ]_vars

\* Three invocations have been answered, the last from the cache entry made
\* by the only deserialization of the environment.
C23_Witness ==
  /\ adapter_response.request = 3
  /\ adapter_response.statusCode = 200
  /\ loads = 1
  /\ adapter_response.model = [id |-> 1, loader |-> "pickle"]
  /\ MODEL_CACHE[adapter_response.path] = adapter_response.model

\* The handler has answered a request.
Handled(r) == r.request > 0 /\ r.fn = "lambda_handler"

\* The handler never raises and a failure is answered with statusCode 500
\* and the class name of the exception.
HandlerAnswers ==
  Handled(adapter_response) =>
    /\ adapter_response.raised = ""
    /\ adapter_response.statusCode \in {200, 500}
    /\ adapter_response.statusCode = 500 => adapter_response.type # ""
    /\ adapter_response.statusCode = 200 => adapter_response.type = ""

\* In every state a request with a well-formed body and an input the model
\* accepts is answered 200 when the artifact at the path can be loaded.
ValidInvocationSucceeds ==
  \A model_path \in ArtifactPaths :
    loader_for(model_path) # "unsupported" =>
      lambda_handler(model_path,
                     [body |-> "object", data |-> "accepted", output |-> "json"],
                     "ok", MODEL_CACHE, loads).value.statusCode = 200

\* The step is an invocation of the handler that failed.
FailedInvocation ==
  /\ adapter_response'.request > adapter_response.request
  /\ adapter_response'.fn = "lambda_handler"
  /\ adapter_response'.statusCode # 200

C25_InvalidModelAnswers400 ==
  [][\A mf \in ModelFilenames, rf \in RequirementsFilenames,
        m \in ModelFiles, r \in RequirementsFiles :
       (/\ deploy_model(mf, rf, m, r)
        /\ extension_supported(file_ext(mf))
        /\ requirements_name_ok(rf)
        /\ ~validate_model(file_ext(mf), m).is_valid)
       => /\ deploy_response(mf, rf, m, r).code = 400
          /\ deploy_response(mf, rf, m, r).detail = "Model validation failed"
    ]_vars

\* C26: get_deployment on a deploying record created more than 30 seconds
\* ago makes the record active with its endpoint_url and returns it as
\* active; on a deploying record created 30 seconds ago or less, and on a
\* record in any other status, it leaves the record as it is.
C26_GetPromotesAfter30Seconds ==
  \A d \in DOMAIN deployments :
    LET rec == deployments[d]
        age == now - rec.created_at
        after == simulate_completion(d, rec, now)
        shown == get_response(d).body[1]
    IN IF rec.status = "deploying" /\ age > SimulatedDeploySeconds
       THEN /\ after.status = "active"
            /\ after.endpoint_url = endpoint_for(d)
            /\ shown.status = "active"
            /\ shown.endpoint_url = endpoint_for(d)
       ELSE after = rec /\ shown = DeploymentResponse(d, rec)

\* The object of the record is deployments/<id>/trigger.json.
IsTriggerFor(record, d) == record.key = Key(<<"deployments", d, "trigger.json">>)

\* C27: processing one event record sends at most one workflow dispatch,
\* and sends it, for <id>, only when the object is
\* deployments/<id>/trigger.json and both model.pkl and requirements.txt
\* exist; with a file missing nothing is dispatched and, the trigger file
\* being readable, the loop goes on with the next record; and an object
\* that is no deployments/<id>/trigger.json causes no dispatch and no
\* status update.
C27_DispatchOnlyForTrigger ==
  [][(records # <<>> /\ records' = Tail(records)) =>
       LET record == Head(records) IN
       /\ \/ dispatched' = dispatched
          \/ \E d \in DeploymentNames :
               /\ IsTriggerFor(record, d)
               /\ RequiredFiles \subseteq record.exists
               /\ Len(dispatched') = Len(dispatched) + 1
               /\ SubSeq(dispatched', 1, Len(dispatched)) = dispatched
               /\ dispatched'[Len(dispatched')].deployment_id = d
       /\ ~(RequiredFiles \subseteq record.exists) =>
            /\ dispatched' = dispatched
            /\ record.body = "object" => trigger_response' = NoResponse
       /\ (\A d \in DeploymentNames : ~IsTriggerFor(record, d)) =>
            dispatched' = dispatched /\ status_updates' = status_updates
    ]_vars

\* A step of the background task of deployment d.
PipelineStep(d) ==
  \/ BgStart(d)
  \/ BgValidate(d)
  \/ \E env \in BuildEnvs : BgBuild(d, env)
  \/ BgWake(d)

\* The stored records of the ids other than d are what they were.
OthersUntouched(d) ==
  \A other \in Ids \ {d} :
    /\ Stored(other)' <=> Stored(other)
    /\ Stored(other) => deployments'[other] = deployments[other]

\* C28: every step of the background pipeline of a deployment, and every
\* get or delete request for it, leaves the stored records of all other
\* deployment ids as they were, however the deployments interleave.
C28_OtherRecordsUntouched ==
  [][\A d \in Ids :
       (\/ PipelineStep(d)
        \/ get_deployment(d)
        \/ \E ok \in BOOLEAN : delete_deployment(d, ok)) => OthersUntouched(d)
    ]_vars

\* Two deployments are interleaved: the pipeline of one has built its image
\* and sleeps while the record of the other is still validating and its
\* task is queued.
C28_Witness ==
  \E d \in Ids, other \in Ids :
    /\ d # other
    /\ Stored(d) /\ deployments[d].status = "deploying"
    /\ d \in DOMAIN tasks
    /\ Stored(other) /\ deployments[other].status = "validating"
    /\ other \in DOMAIN tasks

InFlightStatuses == {"validating", "building", "deploying"}

\* The record of d is stored, in flight, and its task has not ended.
PipelineInFlight(d) ==
  /\ Stored(d)
  /\ deployments[d].status \in InFlightStatuses
  /\ d \in DOMAIN tasks

\* C29: a delete request for a record whose background pipeline is still
\* in flight removes the record at once; no later step of that pipeline
\* stores a record for the id again or writes any field of it; and an id
\* that was given out and is not stored is never stored afterwards, so
\* that GET of it answers 404 from then on.
C29_DeleteInFlightIsFinal ==
  /\ [](\A d \in Ids :
          PipelineInFlight(d) =>
            \A ok \in BOOLEAN :
              ~ENABLED (delete_deployment(d, ok) /\ d \in DOMAIN deployments'))
  /\ [][\A d \in Ids :
          (d <= nextId /\ ~Stored(d)) =>
             /\ ~Stored(d)'
             /\ get_response(d)'.code = 404
       ]_vars

\* The loader that reads the artifacts of a framework.
LoaderOf(framework) ==
  CASE framework = "sklearn" -> "pickle"
    [] framework = "pytorch" -> "torch"
    [] framework = "tensorflow" -> "keras"
    [] OTHER -> "none"

\* C30: for every artifact the validator accepted, the loader the adapter
\* selects from the extension of the artifact's canonical path in the
\* built unit is the loader of the framework the validator recorded:
\* pickle for sklearn, torch for pytorch, keras for tensorflow.
C30_LoaderMatchesFramework ==
  (/\ Returned
   /\ call.fn = "validate_model"
   /\ ret.is_valid)
  => /\ loader_for(model_dest(<<"model", call.ext>>)) = LoaderOf(ret.metadata.framework)
     /\ loader_for(default_model_path) = LoaderOf(ret.metadata.framework)

=============================================================================
